---- MODULE Spec2Model ----
(***************************************************************************)
(* Model of rote's task runner (src/components/rote/runner.rs).            *)
(*                                                                         *)
(* Runner::run is a coordinator thread plus thread_count worker threads.   *)
(* The coordinator owns the schedule and talks to each worker through a    *)
(* private work channel; the workers answer on one shared ready channel.   *)
(* Every step below is one interaction of a thread with a channel (or one  *)
(* purely local computation between two interactions).                     *)
(***************************************************************************)
EXTENDS Integers, Sequences, FiniteSets, TLC

\* Largest job budget (Runner::jobs) the model explores.
MaxJobs == 3

VARIABLES
    tasks,            \* the named tasks of the loaded script: name -> dependencies
    rules,            \* the rules of the loaded script, in the order declared
    always_run,       \* EnvironmentSpec.always_run
    graph,            \* Runner.graph: <<name, origin>> per node, in insertion order
    registry,         \* the tasks the graph holds: name -> declared dependencies
    roots,            \* the names passed to the run call under way
    rroot,            \* how many of them the resolve loop has been through
    rstack,           \* the resolve_task calls under way: <<name, dependencies done>>
    runs,             \* number of run calls made on this Runner
    result,           \* the error the run call under way has returned, if any
    rfailed,          \* history: a resolve_task call on this Runner has failed
    out_of_date,      \* the nodes the freshness oracle called stale in graph.solve
    nodes_before,     \* history: how many nodes the graph held when run was called
    wlookup,          \* history: name -> origin of the task a worker found for it
    jobs,             \* Runner.jobs
    dry_run,          \* EnvironmentSpec.dry_run
    schedule,         \* VecDeque returned by graph.solve, consumed by run
    task_count,       \* schedule.len() at the start of run
    thread_count,     \* min(jobs, task_count)
    spawned,          \* number of iterations of the spawn loop done so far
    free_threads,     \* HashSet<usize>
    channels,         \* worker id -> queue of (name, task_id) sent, not yet received
    channels_dropped, \* drop(channels) has happened
    ready,            \* the shared ready channel: queue of worker ids
    completed_tasks,  \* HashSet<String>
    current_tasks,    \* HashMap<usize, String>
    all_tasks,        \* HashSet<String> of the names of the schedule
    cpc,              \* where the coordinator is
    loop_left,        \* iterations left of the 'schedule loop
    wpc,              \* worker id -> where the worker is
    wtask,            \* worker id -> the (name, task_id) whose action it is running
    invoked,          \* history: task name -> number of times its action was invoked
    finished,         \* history: names whose action has returned
    acked,            \* history: names for which a worker sent ready after handling them
    dispatched,       \* history: <<name, task_id, sent>> per task popped and sent
    picked            \* history: the thread id picked last, -1 before the first pick

rvars == <<tasks, rules, always_run, graph, roots, rroot, rstack, runs, result,
           rfailed, out_of_date, nodes_before>>

vars == <<rvars, wlookup, registry, jobs, dry_run, schedule, task_count, thread_count, spawned,
          free_threads, channels, channels_dropped, ready, completed_tasks,
          current_tasks, all_tasks, cpc, loop_left, wpc, wtask,
          invoked, finished, acked, dispatched, picked>>

Workers == 0 .. (MaxJobs - 1)

Range(s) == {s[i] : i \in 1 .. Len(s)}

Min(a, b) == IF a < b THEN a ELSE b

----------------------------------------------------------------------------
(* The scripts the model runs: a chain a -> b -> c and a fan-out            *)
(* root -> x, y, z, and on their own two independent pairs p -> q, t -> s   *)
(* (a task maps to the names it depends on).                                *)

Chain == [a |-> <<"b">>, b |-> <<"c">>, c |-> <<>>]

Fanout == [root |-> <<"x", "y", "z">>, x |-> <<>>, y |-> <<>>, z |-> <<>>]

Pairs == [p |-> <<"q">>, q |-> <<>>, t |-> <<"s">>, s |-> <<>>]

Registries == {Chain, Fanout}

\* Task::dependencies()
dependencies(reg, t) == Range(reg[t])

\* The names t depends on, directly or transitively.
RECURSIVE TransDeps(_, _)
TransDeps(reg, t) ==
    dependencies(reg, t) \cup UNION {TransDeps(reg, d) : d \in dependencies(reg, t)}

\* The order in which the nodes of a script enter the graph's schedule when
\* every one of them is stale: dependencies first, ties in insertion order.
TopoOrder(reg) ==
    IF reg = Chain THEN <<"c", "b", "a">>
    ELSE IF reg = Fanout THEN <<"x", "y", "z", "root">>
    ELSE <<"q", "s", "p", "t">>

\* s is t with some of its elements left out.
IsSubSeq(s, t) ==
    \E f \in [1 .. Len(s) -> 1 .. Len(t)] :
        /\ \A i \in 1 .. Len(s) : s[i] = t[f[i]]
        /\ \A i, j \in 1 .. Len(s) : i < j => f[i] < f[j]

\* The sequences graph.solve can return for a script: the stale part of the
\* graph in dependency order, where a task whose dependency is scheduled is
\* scheduled too whenever it is a node of the graph (the graph holds the
\* scheduled names and everything they depend on).
Schedules(reg) ==
    LET names == DOMAIN reg
        cands == UNION {[1 .. n -> names] : n \in 0 .. Cardinality(names)}
        nodes(s) == Range(s) \cup UNION {TransDeps(reg, t) : t \in Range(s)}
    IN  {s \in cands :
            /\ IsSubSeq(s, TopoOrder(reg))
            /\ \A t \in nodes(s) :
                   dependencies(reg, t) \cap Range(s) # {} => t \in Range(s)}

\* The order in which resolve_task inserts the tasks of each of these scripts
\* into the graph (a task, then its dependencies depth-first in the order
\* declared).
ResolveOrder(reg) ==
    IF reg = Chain THEN <<"a", "b", "c">>
    ELSE IF reg = Fanout THEN <<"root", "x", "y", "z">>
    ELSE <<"p", "q", "t", "s">>

\* The graph behind schedule s of script reg: the scheduled names and all
\* they depend on, in the order inserted; and the roots it was resolved
\* for, the nodes no other node depends on.
ScheduleNodes(reg, s) == Range(s) \cup UNION {TransDeps(reg, t) : t \in Range(s)}

GraphOf(reg, s) ==
    SelectSeq(ResolveOrder(reg), LAMBDA n : n \in ScheduleNodes(reg, s))

RootsOf(reg, s) ==
    SelectSeq(GraphOf(reg, s),
              LAMBDA n : \A o \in ScheduleNodes(reg, s) : n \notin dependencies(reg, o))

----------------------------------------------------------------------------
(* Looking a name up: named tasks and rules                                 *)

\* Where a task comes from: the named task of that name, or the rule of that
\* index; NoMatch when there is none, NotLooked while no lookup was made.
Named == 0

NoMatch == -1

NotLooked == -2

\* Rule::matches
matches(rule, name) == name \in rule.matches

\* rules().iter().find(|rule| rule.matches(&name)): the first rule, in the
\* order declared, that matches.
FirstMatch(name) ==
    LET hits == {i \in 1 .. Len(rules) : matches(rules[i], name)}
    IN  IF hits = {} THEN NoMatch
        ELSE CHOOSE i \in hits : \A j \in hits : i <= j

\* The dependencies of the task of that origin: of the named task, or of the
\* task rule.create_task(name) makes.
TaskDependencies(name, origin) ==
    IF origin = Named THEN tasks[name] ELSE rules[origin].deps

\* The lookup of resolve_task: the named task if there is one, else the
\* first matching rule, else nothing.
ResolverLookup(name) ==
    IF name \in DOMAIN tasks THEN Named ELSE FirstMatch(name)

\* WorkerLookup with the slip of asking the rules before the named tasks.
WorkerLookupRulesFirst(name) ==
    IF FirstMatch(name) # NoMatch THEN FirstMatch(name)
    ELSE IF name \in DOMAIN tasks THEN Named
    ELSE NoMatch

\* The lookup of a worker thread in its own environment: the named task if
\* there is one, else the first matching rule, else a panic.
WorkerLookup(name) ==
    IF name \in DOMAIN tasks THEN Named ELSE FirstMatch(name)

----------------------------------------------------------------------------
(* Runner::run, the coordinator                                             *)

\* ThreadCount with the slip of one thread per task whatever the job budget.
ThreadCountTasks(j, n) == n

\* ThreadCount with the slip of spawning one thread per job whatever the
\* number of tasks.
ThreadCountJobs(j, n) == j

\* let thread_count = cmp::min(self.jobs, task_count);
ThreadCount(j, n) == Min(j, n)

\* FrontReady with the slip of waiting for every dependency, scheduled or
\* not.
FrontReadyAllCompleted(t) ==
    \A d \in dependencies(registry, t) : d \in completed_tasks

\* FrontReady with the slip of taking a dependency that has left the
\* schedule for one that has completed.
FrontReadyDispatched(t) ==
    \A d \in dependencies(registry, t) : d \notin Range(schedule)

\* The dependency check on the front of the schedule: no dependency that is
\* scheduled at all is still uncompleted.
FrontReady(t) ==
    \A d \in dependencies(registry, t) :
        ~(d \in all_tasks /\ d \notin completed_tasks)

\* pop_front with the slip of taking the task off the other end.
pop_back(s) == [task |-> s[Len(s)], rest |-> SubSeq(s, 1, Len(s) - 1)]

\* schedule.pop_front(): the task taken and what is left of the schedule.
pop_front(s) == [task |-> Head(s), rest |-> Tail(s)]

\* The loop variables (name, task_id) of a thread that is not inside an
\* iteration of its loop.
NoTask == <<"", 0>>

\* A thread that has returned or panicked has dropped both its ends.
Gone(w) == wpc[w] \in {"exited", "panicked"}

\* The locals of run at the start of the spawn loop, and the histories of
\* the run.
RunLocals ==
    /\ spawned = 0
    /\ free_threads = {}
    /\ channels = [w \in Workers |-> <<>>]
    /\ channels_dropped = FALSE
    /\ ready = <<>>
    /\ completed_tasks = {}
    /\ current_tasks = <<>>
    /\ all_tasks = {}
    /\ loop_left = 0
    /\ wpc = [w \in Workers |-> "unspawned"]
    /\ wtask = [w \in Workers |-> NoTask]
    /\ finished = {}
    /\ acked = {}
    /\ dispatched = <<>>
    /\ picked = -1

\* A run call, with a job budget of at most budget, that has resolved the
\* roots of one of the scripts of regs and got a schedule from graph.solve.
Solved(regs, budget) ==
    /\ registry \in regs
    /\ tasks = registry
    /\ rules = <<>>
    /\ always_run = FALSE
    /\ schedule \in Schedules(registry)
    /\ graph = [i \in 1 .. Len(GraphOf(registry, schedule)) |->
                    <<GraphOf(registry, schedule)[i], Named>>]
    /\ roots = RootsOf(registry, schedule)
    /\ rroot = Len(roots)
    /\ rstack = <<>>
    /\ runs = 1
    /\ result = <<>>
    /\ rfailed = FALSE
    /\ wlookup = [t \in DOMAIN registry |-> NotLooked]
    /\ jobs \in 0 .. budget
    /\ dry_run \in BOOLEAN
    /\ task_count = Len(schedule)
    /\ thread_count = ThreadCount(jobs, Len(schedule))
    /\ out_of_date = Range(schedule)
    /\ nodes_before = 0
    /\ cpc = "spawn"
    /\ invoked = [t \in DOMAIN registry |-> 0]
    /\ RunLocals

Init == Solved(Registries, MaxJobs)

\* One iteration of the spawn loop: the thread id becomes free and its
\* thread starts.
Spawn ==
    /\ cpc = "spawn"
    /\ spawned < thread_count
    /\ free_threads' = free_threads \cup {spawned}
    /\ wpc' = [wpc EXCEPT ![spawned] = "create"]
    /\ spawned' = spawned + 1
    /\ UNCHANGED <<rvars, wlookup>>
    /\ UNCHANGED <<registry, jobs, dry_run, schedule, task_count, thread_count,
                   channels, channels_dropped, ready, completed_tasks,
                   current_tasks, all_tasks, cpc, loop_left, wtask,
                   invoked, finished, acked, dispatched, picked>>

\* StartLoop with the slip of leaving all_tasks empty.
StartLoopNoTasks ==
    /\ cpc = "spawn"
    /\ spawned = thread_count
    /\ completed_tasks' = {}
    /\ current_tasks' = <<>>
    /\ all_tasks' = {}
    /\ cpc' = "loop"
    /\ UNCHANGED <<rvars, wlookup>>
    /\ UNCHANGED <<registry, jobs, dry_run, schedule, task_count, thread_count,
                   spawned, free_threads, channels, channels_dropped, ready,
                   loop_left, wpc, wtask, invoked, finished, acked,
                   dispatched, picked>>

\* After the spawn loop: drop(sender) and the bookkeeping sets.
StartLoop ==
    /\ cpc = "spawn"
    /\ spawned = thread_count
    /\ completed_tasks' = {}
    /\ current_tasks' = <<>>
    /\ all_tasks' = Range(schedule)
    /\ cpc' = "loop"
    /\ UNCHANGED <<rvars, wlookup>>
    /\ UNCHANGED <<registry, jobs, dry_run, schedule, task_count, thread_count,
                   spawned, free_threads, channels, channels_dropped, ready,
                   loop_left, wpc, wtask, invoked, finished, acked,
                   dispatched, picked>>

\* receiver.recv() with a message waiting: the thread is free again and the
\* task recorded for it, if any, is completed.
Recv ==
    /\ cpc = "loop"
    /\ schedule # <<>>
    /\ ready # <<>>
    /\ LET thread_id == Head(ready)
           free == free_threads \cup {thread_id}
       IN  /\ ready' = Tail(ready)
           /\ free_threads' = free
           /\ IF thread_id \in DOMAIN current_tasks
              THEN /\ completed_tasks' = completed_tasks \cup {current_tasks[thread_id]}
                   /\ current_tasks' = [w \in DOMAIN current_tasks \ {thread_id} |->
                                            current_tasks[w]]
              ELSE UNCHANGED <<completed_tasks, current_tasks>>
           /\ loop_left' = Cardinality(free)
           /\ cpc' = "schedule"
    /\ UNCHANGED <<rvars, wlookup>>
    /\ UNCHANGED <<registry, jobs, dry_run, schedule, task_count, thread_count,
                   spawned, channels, channels_dropped, all_tasks, wpc,
                   wtask, invoked, finished, acked, dispatched, picked>>

\* receiver.recv().unwrap() with nothing waiting and every sender dropped:
\* recv is an error and run panics.
RecvPanic ==
    /\ cpc = "loop"
    /\ schedule # <<>>
    /\ ready = <<>>
    /\ \A w \in 0 .. (thread_count - 1) : Gone(w)
    /\ cpc' = "panicked"
    /\ channels_dropped' = TRUE
    /\ UNCHANGED <<rvars, wlookup>>
    /\ UNCHANGED <<registry, jobs, dry_run, schedule, task_count, thread_count,
                   spawned, free_threads, channels, ready, completed_tasks,
                   current_tasks, all_tasks, loop_left, wpc, wtask,
                   invoked, finished, acked, dispatched, picked>>

\* One iteration of the 'schedule loop: the front task is popped when none
\* of its dependencies blocks it, and sent to a thread picked from
\* free_threads (a HashSet: iter().next() is any of its elements). A send
\* fails when the thread has dropped its receiver.
ScheduleStep ==
    /\ cpc = "schedule"
    /\ IF schedule = <<>> \/ ~FrontReady(Head(schedule))
       THEN \* break, or break 'schedule
            /\ cpc' = "loop"
            /\ loop_left' = 0
            /\ UNCHANGED <<schedule, channels, current_tasks, free_threads,
                           dispatched, picked>>
       ELSE LET task == pop_front(schedule).task
                rest == pop_front(schedule).rest
                task_id == task_count - Len(rest)
            IN  /\ schedule' = rest
                /\ IF free_threads = {}
                   THEN /\ cpc' = "loop"
                        /\ loop_left' = 0
                        /\ UNCHANGED <<channels, current_tasks, free_threads,
                                       dispatched, picked>>
                   ELSE /\ \E thread_id \in free_threads :
                               /\ picked' = thread_id
                               /\ dispatched' = Append(dispatched,
                                      <<task, task_id, ~Gone(thread_id)>>)
                               /\ IF ~Gone(thread_id)
                                  THEN /\ channels' = [channels EXCEPT ![thread_id] =
                                                         Append(@, <<task, task_id>>)]
                                       /\ current_tasks' =
                                              [w \in DOMAIN current_tasks \cup {thread_id} |->
                                                  IF w = thread_id THEN task
                                                  ELSE current_tasks[w]]
                                       /\ free_threads' = free_threads \ {thread_id}
                                  ELSE UNCHANGED <<channels, current_tasks,
                                                   free_threads>>
                        /\ loop_left' = loop_left - 1
                        /\ cpc' = IF loop_left = 1 THEN "loop" ELSE "schedule"
    /\ UNCHANGED <<rvars, wlookup>>
    /\ UNCHANGED <<registry, jobs, dry_run, task_count, thread_count, spawned,
                   channels_dropped, ready, completed_tasks, all_tasks,
                   wpc, wtask, invoked, finished, acked>>

\* DropChannels with drop(channels) forgotten: the work channels stay open
\* while the threads are joined.
DropChannelsForgotten ==
    /\ cpc = "loop"
    /\ schedule = <<>>
    /\ cpc' = "join"
    /\ UNCHANGED <<rvars, wlookup>>
    /\ UNCHANGED <<registry, jobs, dry_run, schedule, task_count, thread_count,
                   spawned, free_threads, channels, channels_dropped, ready,
                   completed_tasks, current_tasks, all_tasks, loop_left, wpc,
                   wtask, invoked, finished, acked, dispatched, picked>>

\* The schedule is empty: drop(channels) and go on to join the threads.
DropChannels ==
    /\ cpc = "loop"
    /\ schedule = <<>>
    /\ channels_dropped' = TRUE
    /\ cpc' = "join"
    /\ UNCHANGED <<rvars, wlookup>>
    /\ UNCHANGED <<registry, jobs, dry_run, schedule, task_count, thread_count,
                   spawned, free_threads, channels, ready, completed_tasks,
                   current_tasks, all_tasks, loop_left, wpc, wtask,
                   invoked, finished, acked, dispatched, picked>>

\* The join loop and Ok(()): thread.join() blocks until the thread has ended,
\* whether it returned or panicked (a panic is only traced), so the loop is
\* through once every thread has ended. No thread observes how far the loop
\* has come.
JoinAndReturn ==
    /\ cpc = "join"
    /\ \A w \in 0 .. (thread_count - 1) : Gone(w)
    /\ cpc' = "done"
    /\ UNCHANGED <<rvars, wlookup>>
    /\ UNCHANGED <<registry, jobs, dry_run, schedule, task_count, thread_count,
                   spawned, free_threads, channels, channels_dropped, ready,
                   completed_tasks, current_tasks, all_tasks, loop_left,
                   wpc, wtask, invoked, finished, acked, dispatched, picked>>

----------------------------------------------------------------------------
(* The worker closure                                                       *)

\* The coordinator still holds the receiving end of the ready channel.
ReceiverAlive == cpc \notin {"done", "panicked"}

\* The ready channel after thread w has sent its id. Once the coordinator has
\* left its loop it never receives again and the message stays unread until
\* the channel is dropped: such a message is not recorded.
Queued(w) == IF cpc = "join" THEN ready ELSE Append(ready, w)

\* thread_sender.send(thread_id) after task t: the thread waits for the next
\* task, or leaves its loop when the send fails.
SendReady(w, t) ==
    IF ReceiverAlive
    THEN /\ ready' = Queued(w)
         /\ acked' = acked \cup {t}
         /\ wpc' = [wpc EXCEPT ![w] = "wait"]
    ELSE /\ wpc' = [wpc EXCEPT ![w] = "exited"]
         /\ UNCHANGED <<ready, acked>>

\* if !spec.dry_run: the worker invokes the action of the task it has taken.
RunsAction == ~dry_run

\* spec.create(), then the start-up ready signal; a failed create panics.
WorkerCreate(w) ==
    /\ wpc[w] = "create"
    /\ \E created \in BOOLEAN :
           IF created
           THEN /\ wpc' = [wpc EXCEPT ![w] = "wait"]
                /\ ready' = IF ReceiverAlive THEN Queued(w) ELSE ready
           ELSE /\ wpc' = [wpc EXCEPT ![w] = "panicked"]
                /\ UNCHANGED ready
    /\ UNCHANGED <<rvars, wlookup>>
    /\ UNCHANGED <<registry, jobs, dry_run, schedule, task_count, thread_count,
                   spawned, free_threads, channels, channels_dropped,
                   completed_tasks, current_tasks, all_tasks, cpc, loop_left,
                   wtask, invoked, finished, acked, dispatched, picked>>

\* thread_receiver.recv() returns a task: print, look the task up (a miss
\* panics) and, unless this is a dry run, invoke its action; in a dry run
\* the ready signal follows at once. The lookup is made in the environment
\* the thread has created for itself, which holds what the script declares
\* or, when the load went differently, lacks the task.
WorkerTake(w) ==
    /\ wpc[w] = "wait"
    /\ channels[w] # <<>>
    /\ channels' = [channels EXCEPT ![w] = Tail(@)]
    /\ \E found \in BOOLEAN :
           IF ~found \/ WorkerLookup(Head(channels[w])[1]) = NoMatch
           THEN /\ wpc' = [wpc EXCEPT ![w] = "panicked"]
                /\ UNCHANGED <<wtask, invoked, ready, acked, wlookup>>
           ELSE /\ wlookup' = [wlookup EXCEPT ![Head(channels[w])[1]] =
                                   WorkerLookup(Head(channels[w])[1])]
                /\ IF ~RunsAction
                   THEN /\ SendReady(w, Head(channels[w])[1])
                        /\ UNCHANGED <<wtask, invoked>>
                   ELSE /\ wpc' = [wpc EXCEPT ![w] = "running"]
                        /\ wtask' = [wtask EXCEPT ![w] = Head(channels[w])]
                        /\ invoked' = [invoked EXCEPT ![Head(channels[w])[1]] = @ + 1]
                        /\ UNCHANGED <<ready, acked>>
    /\ UNCHANGED rvars
    /\ UNCHANGED <<registry, jobs, dry_run, schedule, task_count, thread_count,
                   spawned, free_threads, channels_dropped,
                   completed_tasks, current_tasks, all_tasks, cpc, loop_left,
                   finished, dispatched, picked>>

\* thread_receiver.recv() is an error: the channel is empty and closed.
WorkerExit(w) ==
    /\ wpc[w] = "wait"
    /\ channels[w] = <<>>
    /\ channels_dropped
    /\ wpc' = [wpc EXCEPT ![w] = "exited"]
    /\ UNCHANGED <<rvars, wlookup>>
    /\ UNCHANGED <<registry, jobs, dry_run, schedule, task_count, thread_count,
                   spawned, free_threads, channels, channels_dropped, ready,
                   completed_tasks, current_tasks, all_tasks, cpc, loop_left,
                   wtask, invoked, finished, acked, dispatched, picked>>

\* task.run() returns: an error panics the thread, success is followed by
\* the ready signal.
WorkerFinish(w) ==
    /\ wpc[w] = "running"
    /\ finished' = finished \cup {wtask[w][1]}
    /\ wtask' = [wtask EXCEPT ![w] = NoTask]
    /\ \E ok \in BOOLEAN :
           IF ok
           THEN SendReady(w, wtask[w][1])
           ELSE /\ wpc' = [wpc EXCEPT ![w] = "panicked"]
                /\ UNCHANGED <<ready, acked>>
    /\ UNCHANGED <<rvars, wlookup>>
    /\ UNCHANGED <<registry, jobs, dry_run, schedule, task_count, thread_count,
                   spawned, free_threads, channels, channels_dropped,
                   completed_tasks, current_tasks, all_tasks, cpc, loop_left,
                   invoked, dispatched, picked>>

Worker(w) ==
    \/ WorkerCreate(w)
    \/ WorkerTake(w)
    \/ WorkerExit(w)
    \/ WorkerFinish(w)

Coordinator ==
    \/ Spawn
    \/ StartLoop
    \/ Recv
    \/ RecvPanic
    \/ ScheduleStep
    \/ DropChannels
    \/ JoinAndReturn

Next == Coordinator \/ \E w \in Workers : Worker(w)

Spec == Init /\ [][Next]_vars

\* Every thread is an OS thread that keeps running while it can take a step:
\* no thread that is able to move stays put for ever.
FairSpec == Spec /\ WF_vars(Coordinator) /\ \A w \in Workers : WF_vars(Worker(w))

\* Largest job budget explored for the script of the two pairs.
MaxPairsJobs == 2

\* The run of the script of the two pairs, where a task that is ready can
\* stand behind one that is blocked.
PairsInit == Solved({Pairs}, MaxPairsJobs)

PairsSpec == PairsInit /\ [][Next]_vars

----------------------------------------------------------------------------
(* Runner::run from the call on: resolve_task and graph.solve               *)

\* Most run calls made on one Runner, and the largest job budget of such a
\* Runner.
MaxRuns == 2

MaxRunJobs == 1

\* A build script: named tasks, a name (util_o) that is both a named task and
\* matched by a rule, a name (main_o) matched by two rules, and a task (bad)
\* that depends on a name nothing declares. roots are the run calls tried.
Build ==
    [tasks |-> [app |-> <<"main_o", "util_o">>, util_o |-> <<>>, lib |-> <<>>,
                bad |-> <<"lib", "nope">>, top |-> <<"bad">>],
     rules |-> <<[matches |-> {"main_o", "util_o"}, deps |-> <<"lib">>],
                 [matches |-> {"main_o"}, deps |-> <<>>]>>,
     roots |-> {<<"app">>, <<"lib">>, <<"lib", "app">>, <<"bad">>, <<"top">>}]

\* A script whose two tasks depend on each other.
Cyclic ==
    [tasks |-> [a |-> <<"b">>, b |-> <<"a">>],
     rules |-> <<>>,
     roots |-> {<<"a">>}]

\* A script whose one task depends on itself.
SelfDependent ==
    [tasks |-> [s |-> <<"s">>],
     rules |-> <<>>,
     roots |-> {<<"s">>}]

Scripts == {Build, Cyclic, SelfDependent}

\* The names of the nodes of the graph, as a sequence and as a set.
NodeNames == [i \in 1 .. Len(graph) |-> graph[i][1]]

\* Graph::contains
contains(name) == name \in Range(NodeNames)

\* The dependency test of resolve_task with the slip of never descending.
unresolvedNever(dependency) == FALSE

\* The dependency test of resolve_task with the slip of always descending.
unresolvedAlways(dependency) == TRUE

\* if !self.graph.contains(dependency): the dependency has yet to be resolved.
unresolved(dependency) == ~contains(dependency)

\* What an error does to a run with the slip of logging it and going on.
ErrorIgnored(error) ==
    /\ result' = error
    /\ UNCHANGED <<cpc, rstack>>

\* try!: an error ends the run call at once, whatever calls are under way.
ReturnErr(error) ==
    /\ result' = error
    /\ rstack' = <<>>
    /\ cpc' = "failed"

\* The head of resolve_task(name) with stack the calls under way: a name the
\* graph lacks is looked up and inserted, or is an error; then the walk over
\* the dependencies of the node starts.
ResolveEnter(name, stack) ==
    IF contains(name)
    THEN /\ rstack' = Append(stack, <<name, 0>>)
         /\ UNCHANGED <<graph, registry, result, cpc, rfailed>>
    ELSE IF ResolverLookup(name) = NoMatch
    THEN /\ ReturnErr(<<"no matching task or rule", name>>)
         /\ rfailed' = TRUE
         /\ UNCHANGED <<graph, registry>>
    ELSE /\ graph' = Append(graph, <<name, ResolverLookup(name)>>)
         /\ registry' = [n \in DOMAIN registry \cup {name} |->
                            IF n = name
                            THEN TaskDependencies(name, ResolverLookup(name))
                            ELSE registry[n]]
         /\ rstack' = Append(stack, <<name, 0>>)
         /\ UNCHANGED <<result, cpc, rfailed>>

\* run is called with one of the root lists of the script.
RunCall ==
    /\ cpc \in {"idle", "done", "failed"}
    /\ runs < MaxRuns
    /\ runs' = runs + 1
    /\ \E s \in Scripts : s.tasks = tasks /\ roots' \in s.roots
    /\ rroot' = 0
    /\ rstack' = <<>>
    /\ result' = <<>>
    /\ cpc' = "resolve"
    /\ schedule' = <<>>
    /\ task_count' = 0
    /\ thread_count' = 0
    /\ invoked' = <<>>
    /\ wlookup' = <<>>
    /\ spawned' = 0
    /\ free_threads' = {}
    /\ channels' = [w \in Workers |-> <<>>]
    /\ channels_dropped' = FALSE
    /\ ready' = <<>>
    /\ completed_tasks' = {}
    /\ current_tasks' = <<>>
    /\ all_tasks' = {}
    /\ loop_left' = 0
    /\ wpc' = [w \in Workers |-> "unspawned"]
    /\ wtask' = [w \in Workers |-> NoTask]
    /\ finished' = {}
    /\ acked' = {}
    /\ dispatched' = <<>>
    /\ picked' = -1
    /\ out_of_date' = {}
    /\ nodes_before' = Len(graph)
    /\ UNCHANGED <<tasks, rules, always_run, graph, registry, jobs, dry_run,
                   rfailed>>

\* for task in tasks { try!(self.resolve_task(task)); }: the next root.
ResolveRoot ==
    /\ cpc = "resolve"
    /\ rstack = <<>>
    /\ rroot < Len(roots)
    /\ rroot' = rroot + 1
    /\ ResolveEnter(roots[rroot + 1], <<>>)
    /\ UNCHANGED <<tasks, rules, always_run, roots, runs, wlookup, jobs, dry_run,
                   out_of_date, nodes_before, schedule, task_count, thread_count,
                   spawned, free_threads,
                   channels, channels_dropped, ready, completed_tasks,
                   current_tasks, all_tasks, loop_left, wpc, wtask, invoked,
                   finished, acked, dispatched, picked>>

\* The dependency loop of the innermost resolve_task call: the next
\* dependency is resolved if the graph lacks it; after the last one the call
\* returns Ok(()).
ResolveStep ==
    /\ cpc = "resolve"
    /\ rstack # <<>>
    /\ LET name == rstack[Len(rstack)][1]
           i == rstack[Len(rstack)][2]
           outer == SubSeq(rstack, 1, Len(rstack) - 1)
       IN  IF i = Len(registry[name])
           THEN /\ rstack' = outer
                /\ UNCHANGED <<graph, registry, result, cpc, rfailed>>
           ELSE IF unresolved(registry[name][i + 1])
           THEN ResolveEnter(registry[name][i + 1], Append(outer, <<name, i + 1>>))
           ELSE /\ rstack' = Append(outer, <<name, i + 1>>)
                /\ UNCHANGED <<graph, registry, result, cpc, rfailed>>
    /\ UNCHANGED <<tasks, rules, always_run, roots, rroot, runs, wlookup, jobs,
                   dry_run, out_of_date, nodes_before, schedule, task_count,
                   thread_count, spawned,
                   free_threads, channels, channels_dropped, ready,
                   completed_tasks, current_tasks, all_tasks, loop_left, wpc,
                   wtask, invoked, finished, acked, dispatched, picked>>

\* The nodes of set S in the order they were inserted into the graph.
InsertionOrder(S) == SelectSeq(NodeNames, LAMBDA n : n \in S)

\* Graph::solve, the order: the nodes none of whose dependencies is left are
\* taken off, in insertion order, again and again; nodes left when none can
\* be taken off are on a cycle.
RECURSIVE Peel(_, _)
Peel(out, left) ==
    LET free == {n \in left : Range(registry[n]) \cap left = {}}
    IN  IF left = {} THEN [cycle |-> FALSE, order |-> out]
        ELSE IF free = {} THEN [cycle |-> TRUE, order |-> out]
        ELSE Peel(out \o InsertionOrder(free), left \ free)

\* Graph::solve, the dirty nodes of an order: the stale ones and those with
\* a dirty dependency.
RECURSIVE Dirty(_, _, _)
Dirty(order, stale, dirty) ==
    IF order = <<>> THEN dirty
    ELSE Dirty(Tail(order), stale,
               IF Head(order) \in stale \/ Range(registry[Head(order)]) \cap dirty # {}
               THEN dirty \cup {Head(order)}
               ELSE dirty)

\* Graph::solve(respect_freshness) when the freshness oracle calls the nodes
\* of stale out of date.
solve(respect_freshness, stale) ==
    LET peeled == Peel(<<>>, Range(NodeNames))
        dirty == Dirty(peeled.order, stale, {})
    IN  IF peeled.cycle THEN peeled
        ELSE IF respect_freshness
        THEN [cycle |-> FALSE,
              order |-> SelectSeq(peeled.order, LAMBDA n : n \in dirty)]
        ELSE peeled

\* SolveFailed with the slip of taking whatever solve returns for a schedule.
SolveFailedNever(solved) == FALSE

\* try!(self.graph.solve(..)): the result of solve is an error.
SolveFailed(solved) == solved.cycle

\* RespectFreshness with the slip of passing true whatever always_run is.
RespectFreshnessAlways == TRUE

\* The argument of solve: !self.spec.always_run.
RespectFreshness == ~always_run

\* Most nodes the freshness oracle calls stale in one solve.
MaxStale == 1

\* let mut schedule = try!(self.graph.solve(!self.spec.always_run)), then
\* task_count and thread_count. The freshness oracle reads the file system:
\* what it calls stale is any set of nodes, here of at most MaxStale.
Solve ==
    /\ cpc = "resolve"
    /\ rstack = <<>>
    /\ rroot = Len(roots)
    /\ \E stale \in (IF always_run THEN {{}}
                     ELSE {s \in SUBSET Range(NodeNames) : Cardinality(s) <= MaxStale}) :
           LET solved == solve(RespectFreshness, stale)
           IN  /\ out_of_date' = stale
               /\ IF SolveFailed(solved)
                  THEN /\ ReturnErr(<<"cycle", "">>)
                       /\ UNCHANGED <<schedule, task_count, thread_count,
                                      invoked, wlookup>>
                  ELSE /\ schedule' = solved.order
                       /\ task_count' = Len(solved.order)
                       /\ thread_count' = ThreadCount(jobs, Len(solved.order))
                       /\ invoked' = [t \in DOMAIN registry |-> 0]
                       /\ wlookup' = [t \in DOMAIN registry |-> NotLooked]
                       /\ cpc' = "spawn"
                       /\ UNCHANGED <<result, rstack>>
    /\ UNCHANGED <<tasks, rules, always_run, graph, registry, roots, rroot, runs,
                   rfailed, nodes_before, jobs, dry_run, spawned, free_threads, channels,
                   channels_dropped, ready, completed_tasks, current_tasks,
                   all_tasks, loop_left, wpc, wtask, finished, acked,
                   dispatched, picked>>

\* A Runner that has loaded one of the scripts; no run call made yet.
RInit ==
    /\ \E s \in Scripts : tasks = s.tasks /\ rules = s.rules
    /\ always_run \in BOOLEAN
    /\ jobs \in 1 .. MaxRunJobs
    /\ dry_run = FALSE
    /\ graph = <<>>
    /\ registry = <<>>
    /\ roots = <<>>
    /\ rroot = 0
    /\ rstack = <<>>
    /\ runs = 0
    /\ result = <<>>
    /\ rfailed = FALSE
    /\ out_of_date = {}
    /\ nodes_before = 0
    /\ cpc = "idle"
    /\ schedule = <<>>
    /\ task_count = 0
    /\ thread_count = 0
    /\ invoked = <<>>
    /\ wlookup = <<>>
    /\ RunLocals

RNext == RunCall \/ ResolveRoot \/ ResolveStep \/ Solve \/ Next

RSpec == RInit /\ [][RNext]_vars

----------------------------------------------------------------------------
(* Properties                                                               *)

Running == {w \in Workers : wpc[w] = "running"}

SomeWorkerFailed == \E w \in Workers : wpc[w] = "panicked"

\* C1 (dependency respect): while the action of a task is executing, the
\* action of every scheduled task it depends on, directly or transitively,
\* has already returned.
C1_DependencyRespect ==
    \A w \in Running :
        \A d \in TransDeps(registry, wtask[w][1]) \cap all_tasks : d \in finished

\* C2 (truthful completion): every name in completed_tasks is a task that a
\* worker has handled and acknowledged with a ready signal sent afterwards.
C2_CompletionTruthful == completed_tasks \subseteq acked

\* C3 (dispatch gating): whenever the coordinator pops the front task off the
\* schedule, every dependency of that task that is in all_tasks is already
\* in completed_tasks.
C3_DispatchGating ==
    [][schedule' # schedule =>
          \A d \in dependencies(registry, Head(schedule)) :
              d \in all_tasks => d \in completed_tasks]_vars

\* C3 witness: a task with a scheduled dependency has been popped and sent.
C3_Witness ==
    \E i \in 1 .. Len(dispatched) :
        /\ dispatched[i][3]
        /\ dependencies(registry, dispatched[i][1]) \cap all_tasks # {}

\* C4 (exactly once): when run has returned, the action of every scheduled
\* task has been invoked exactly once, and not at all in a dry run.
C4_ExactlyOnce ==
    cpc = "done" =>
        \A t \in all_tasks : invoked[t] = (IF dry_run THEN 0 ELSE 1)

\* C5 (failure is reported): run does not return Ok(()) when a worker has
\* failed.
C5_FailureReported == cpc = "done" => ~SomeWorkerFailed

\* The coordinator waits for a ready signal that no thread will ever send:
\* every thread still alive waits for a task on its open, empty channel.
CoordinatorStuck ==
    /\ cpc = "loop"
    /\ schedule # <<>>
    /\ ready = <<>>
    /\ \E w \in 0 .. (thread_count - 1) : ~Gone(w)
    /\ \A w \in 0 .. (thread_count - 1) :
           Gone(w) \/ (wpc[w] = "wait" /\ channels[w] = <<>>)

\* C6 (termination after a failure): after a worker has failed the
\* coordinator is never left blocked on the ready channel for good.
C6_NoBlockForever == SomeWorkerFailed => ~CoordinatorStuck

\* C7 (a failure poisons the run): once a worker has failed, no further task
\* is sent to a worker.
C7_FailurePoisonsRun ==
    [][SomeWorkerFailed =>
          ~(/\ Len(dispatched') > Len(dispatched)
            /\ dispatched'[Len(dispatched')][3])]_vars

\* C8 (no dispatch to a dead worker): a thread that has exited is never
\* picked as the target of a dispatch.
C8_NoDispatchToDeadWorker ==
    [][Len(dispatched') > Len(dispatched) => ~Gone(picked')]_vars

\* C9 (worker bound): never more than min(jobs, task_count) actions execute
\* at once, never more threads than that are spawned, and once the spawn
\* loop is over exactly that many have been.
C9_WorkerBound ==
    LET bound == IF jobs < task_count THEN jobs ELSE task_count
        threads == {w \in Workers : wpc[w] # "unspawned"}
    IN  /\ Cardinality(Running) <= bound
        /\ Cardinality(threads) <= bound
        /\ cpc # "spawn" => Cardinality(threads) = bound

\* C9 witness: the schedule is shorter than the job budget and as many
\* actions execute at once as there are tasks.
C9_Witness ==
    /\ task_count = 2
    /\ jobs = 3
    /\ Cardinality(Running) = 2

\* The fan-out run: schedule [x, y, z, root] with a job budget of 3.
FanoutRun ==
    /\ registry = Fanout
    /\ all_tasks = {"x", "y", "z", "root"}
    /\ jobs = 3

\* C10 (fan-out is safe): in the fan-out run the action of root executes
\* only after the actions of x, y and z have all returned.
C10_FanoutRootAfterAll ==
    FanoutRun =>
        \A w \in Running :
            wtask[w][1] = "root" => {"x", "y", "z"} \subseteq finished

\* C10, the reachable half: x, y and z execute at the same time.
C10_FanoutAllRunning ==
    /\ FanoutRun
    /\ {wtask[w][1] : w \in Running} = {"x", "y", "z"}

\* The names sent to a worker so far, in the order they were sent.
SentNames == {dispatched[i][1] : i \in {j \in 1 .. Len(dispatched) : dispatched[j][3]}}

\* run has returned from a run in which no worker failed: nothing is left
\* to do and everything handed out has been carried out.
CleanReturn ==
    /\ schedule = <<>>
    /\ SentNames = all_tasks
    /\ \A w \in Workers :
           /\ wpc[w] \in {"unspawned", "exited"}
           /\ channels[w] = <<>>
    /\ acked = all_tasks
    /\ \A t \in all_tasks :
           invoked[t] = (IF dry_run THEN 0 ELSE 1) /\ (~dry_run => t \in finished)

\* C11 (fault-free completion): with a job budget of at least 1 and no
\* failing worker the coordinator is never stuck, the run ends with Ok(()),
\* and when it does the schedule is empty, every thread has drained its
\* channel and exited, and every task sent has been carried out.
C11_FaultFreeCompletion ==
    /\ [](~SomeWorkerFailed => ~CoordinatorStuck)
    /\ []((cpc = "done" /\ ~SomeWorkerFailed) => CleanReturn)
    /\ (jobs >= 1 => <>(cpc = "done" \/ SomeWorkerFailed))

\* C11 witness: a run of three tasks on two threads has returned without a
\* failure.
C11_Witness ==
    /\ cpc = "done"
    /\ ~SomeWorkerFailed
    /\ task_count = 3
    /\ thread_count = 2

\* The step is an iteration of the 'schedule loop.
InScheduleStep == cpc = "schedule" /\ loop_left' # loop_left

\* The dependencies of task t that are scheduled and not yet completed.
Blocking(t) == (dependencies(registry, t) \cap all_tasks) \ completed_tasks

\* C17 (unscheduled dependencies do not block): an iteration of the
\* 'schedule loop that finds at the front a task whose uncompleted
\* dependencies are all absent from the schedule pops that task and hands it
\* to the thread it picks.
C17_UnscheduledDepsDoNotBlock ==
    [][(InScheduleStep /\ schedule # <<>> /\ Blocking(Head(schedule)) = {}) =>
          /\ schedule' = Tail(schedule)
          /\ Len(dispatched') = Len(dispatched) + 1
          /\ dispatched'[Len(dispatched')][1] = Head(schedule)]_vars

\* C17 witness: a task has been sent whose dependencies are all absent from
\* the schedule and none of them completed.
C17_Witness ==
    \E i \in 1 .. Len(dispatched) :
        /\ dispatched[i][3]
        /\ dependencies(registry, dispatched[i][1]) # {}
        /\ dependencies(registry, dispatched[i][1]) \cap all_tasks = {}
        /\ dependencies(registry, dispatched[i][1]) \cap completed_tasks = {}

\* The names popped so far, in the order they were popped.
PoppedNames == [i \in 1 .. Len(dispatched) |-> dispatched[i][1]]

\* C18 (front-to-back consumption): the schedule only ever loses its front
\* task, the tasks popped followed by the tasks left are always the schedule
\* in its order, and an iteration that finds the front task blocked on a
\* scheduled, uncompleted dependency dispatches nothing.
C18_FrontToBack ==
    [][/\ schedule' # schedule =>
              /\ schedule' = Tail(schedule)
              /\ PoppedNames' = Append(PoppedNames, Head(schedule))
       /\ PoppedNames' \o schedule' = PoppedNames \o schedule
       /\ (InScheduleStep /\ schedule # <<>> /\ Blocking(Head(schedule)) # {}) =>
              UNCHANGED <<schedule, dispatched, channels>>]_vars

\* C18 witness: the front task is blocked while a thread is free and
\* nothing blocks the task behind it.
C18_Witness ==
    /\ cpc = "schedule"
    /\ Len(schedule) >= 2
    /\ dispatched # <<>>
    /\ Blocking(Head(schedule)) # {}
    /\ free_threads # {}
    /\ Blocking(schedule[2]) = {}

\* The progress indices of the tasks sent to a worker, in the order sent.
SentIds ==
    LET sent == {j \in 1 .. Len(dispatched) : dispatched[j][3]}
    IN  {dispatched[j][2] : j \in sent}

\* C19 (progress numbering): the k-th task sent to a worker carries progress
\* index k, and when run has returned the indices sent are exactly
\* 1 .. task_count.
C19_ProgressNumbering ==
    /\ \A i \in 1 .. Len(dispatched) :
           dispatched[i][3] =>
               dispatched[i][2] = Cardinality({j \in 1 .. i : dispatched[j][3]})
    /\ cpc = "done" => SentIds = 1 .. task_count

\* C20 (dry run): a dry run with a job budget of at least 1 invokes no
\* action, never panics or gets stuck, and when it returns has sent every
\* scheduled task and got a ready signal back for each.
C20_DryRunAlwaysSucceeds ==
    (dry_run /\ jobs >= 1) =>
        /\ \A t \in DOMAIN invoked : invoked[t] = 0
        /\ cpc # "panicked"
        /\ ~CoordinatorStuck
        /\ cpc = "done" => (SentNames = all_tasks /\ acked = all_tasks)

\* What a dry run does keep: no action is ever invoked or executing, so no
\* action can fail; a task is popped only when its scheduled dependencies are
\* completed; and with a job budget of at least 1, as long as no thread fails
\* to create its context or to look a task up, the run is never stuck,
\* returns Ok(()) in the end, and has then sent every scheduled task and got
\* a ready signal back for each.
DryRunFaultFree ==
    /\ [](dry_run =>
            /\ \A t \in DOMAIN invoked : invoked[t] = 0
            /\ Running = {}
            /\ finished = {}
            /\ ~SomeWorkerFailed =>
                   /\ ~CoordinatorStuck
                   /\ jobs >= 1 => cpc # "panicked"
                   /\ cpc = "done" => (SentNames = all_tasks /\ acked = all_tasks))
    /\ [][(dry_run /\ schedule' # schedule) => Blocking(Head(schedule)) = {}]_vars
    /\ ((dry_run /\ jobs >= 1) => <>(cpc = "done" \/ SomeWorkerFailed))

\* A dry run of three tasks on two threads has returned.
DryRunReturned ==
    /\ dry_run
    /\ cpc = "done"
    /\ ~SomeWorkerFailed
    /\ acked = all_tasks
    /\ task_count = 3
    /\ thread_count = 2

----------------------------------------------------------------------------
(* Properties of resolve_task and of the run call as a whole (RSpec)        *)

\* The run call under way has returned an error.
Failed == result # <<>>

\* No thread has been spawned and nothing has been handed out or invoked.
NothingStarted ==
    /\ spawned = 0
    /\ \A w \in Workers : wpc[w] = "unspawned"
    /\ dispatched = <<>>
    /\ finished = {}
    /\ \A t \in DOMAIN invoked : invoked[t] = 0

\* C12 (resolver and schedule errors precede execution): once resolving a
\* root or building the schedule has failed, the run call has returned that
\* error, no thread has been spawned and no action invoked; and a run call
\* never ends in an error otherwise.
C12_ErrorsPrecedeExecution ==
    /\ Failed => (cpc = "failed" /\ NothingStarted)
    /\ cpc = "failed" => Failed

\* C12 witness: a run call has failed on an unknown name after it had
\* resolved other names.
C12_Witness ==
    /\ cpc = "failed"
    /\ result = <<"no matching task or rule", "nope">>
    /\ roots = <<"bad">>
    /\ Len(graph) >= 2

\* The names that can be reached from the names of S along the dependencies
\* the graph holds, in at most k steps.
RECURSIVE Reach(_, _)
Reach(S, k) ==
    LET further == S \cup UNION {Range(registry[n]) : n \in S \cap DOMAIN registry}
    IN  IF k = 0 \/ further = S THEN S ELSE Reach(further, k - 1)

\* Node n of the graph depends on itself, directly or not.
OnCycle(n) == n \in Reach(Range(registry[n]), Len(graph))

\* Every root of the run call has been resolved with success.
RootsResolved ==
    /\ cpc = "resolve"
    /\ rstack = <<>>
    /\ rroot = Len(roots)
    /\ roots # <<>>

Resolvable(n) ==
    n \in DOMAIN tasks \/ \E i \in 1 .. Len(rules) : n \in rules[i].matches

\* The names the script declares reachable from the names of S, in at most k
\* steps (a name has the dependencies of the task looked up for it).
RECURSIVE Declared(_, _)
Declared(S, k) ==
    IF k = 0 THEN S
    ELSE Declared(S \cup UNION {Range(TaskDependencies(n, ResolverLookup(n))) :
                                  n \in {x \in S : Resolvable(x)}}, k - 1)

\* Most names a script declares or mentions.
MaxNames == 8

\* C14 (unknown task): a resolve_task error names a name that is reachable
\* from the root being resolved and that is neither a named task nor matched
\* by a rule; and when resolve_task has returned Ok for a root, every name
\* reachable from that root is a named task or matched by a rule.
C14_UnknownTaskExactly ==
    /\ (Failed /\ result[1] = "no matching task or rule") =>
           /\ ~Resolvable(result[2])
           /\ result[2] \in Declared({roots[rroot]}, MaxNames)
    /\ (cpc = "resolve" /\ rstack = <<>>) =>
           \A i \in 1 .. rroot :
               \A n \in Declared({roots[i]}, MaxNames) : Resolvable(n)

\* C15 (rule priority and order): every node of the graph is the named task
\* of its name when there is one, else the task of the first rule, in the
\* order declared, that matches its name, with the dependencies of that
\* task; and the task a worker has found for a name is of the same origin.
C15_LookupPolicy ==
    \A i \in 1 .. Len(graph) :
        LET n == graph[i][1]
            o == graph[i][2]
        IN  /\ n \in DOMAIN tasks => (o = Named /\ registry[n] = tasks[n])
            /\ n \notin DOMAIN tasks =>
                   /\ o \in 1 .. Len(rules)
                   /\ n \in rules[o].matches
                   /\ \A j \in 1 .. (o - 1) : n \notin rules[j].matches
                   /\ registry[n] = rules[o].deps
            /\ n \in DOMAIN wlookup => wlookup[n] \in {NotLooked, o}

\* C15 witness: workers have looked up a name that is both a named task and
\* matched by a rule, and a name that two rules match.
C15_Witness ==
    /\ "util_o" \in DOMAIN wlookup
    /\ "main_o" \in DOMAIN wlookup
    /\ wlookup["util_o"] = Named
    /\ wlookup["main_o"] = 1

\* C16 (graph closure): while no resolve_task call on the Runner has failed,
\* whenever no such call is under way every dependency of every node of the
\* graph is a node of the graph; and no name is ever a node twice.
C16_GraphClosure ==
    /\ (~rfailed /\ rstack = <<>>) =>
           \A n \in Range(NodeNames) : Range(registry[n]) \subseteq Range(NodeNames)
    /\ \A i, j \in 1 .. Len(graph) : graph[i][1] = graph[j][1] => i = j

\* C16 witness: a second run call has resolved a root that was a node
\* already and a root whose dependencies were nodes already.
C16_Witness ==
    /\ runs = 2
    /\ ~rfailed
    /\ roots = <<"lib", "app">>
    /\ RootsResolved
    /\ Len(graph) = 4

----------------------------------------------------------------------------
(* Properties of the run as a whole, continued                              *)

\* C21 (empty schedule): when solve has returned an empty schedule no thread
\* is spawned, the coordinator never receives on the ready channel and is at
\* no point unable to go on, no action is invoked, and the run ends in
\* Ok(()) and in nothing else.
C21_EmptySchedule ==
    task_count = 0 =>
        /\ thread_count = 0
        /\ NothingStarted
        /\ cpc \in {"spawn", "loop", "join", "done"}
        /\ cpc = "spawn" => spawned = thread_count
        /\ cpc = "loop" => schedule = <<>>
        /\ cpc = "join" => \A w \in 0 .. (thread_count - 1) : Gone(w)

\* C21 witness: a run with a job budget of 3 and an empty schedule has
\* returned Ok(()).
C21_Witness ==
    /\ task_count = 0
    /\ jobs = 3
    /\ cpc = "done"

\* graph.solve has returned a schedule and nothing of it is consumed yet.
ScheduleFresh == cpc = "spawn" /\ spawned = 0

\* C22 (schedule inclusion): a node of the graph is in the schedule solve
\* returns exactly when the freshness oracle calls it stale, or always_run
\* is set, or one of its declared dependencies is in the schedule; and with
\* always_run the schedule holds every node of the graph.
C22_ScheduleInclusion ==
    ScheduleFresh =>
        /\ \A n \in Range(NodeNames) :
               n \in Range(schedule) <=>
                   \/ n \in out_of_date
                   \/ always_run
                   \/ Range(registry[n]) \cap Range(schedule) # {}
        /\ Range(schedule) \subseteq Range(NodeNames)
        /\ always_run => Range(schedule) = Range(NodeNames)

\* C22 witness: without always_run only lib is stale, and the schedule holds
\* main_o, which depends on lib, and app, which depends on main_o, but not
\* util_o.
C22_Witness ==
    /\ ScheduleFresh
    /\ ~always_run
    /\ out_of_date = {"lib"}
    /\ Range(NodeNames) = {"app", "main_o", "util_o", "lib"}
    /\ Range(schedule) = {"lib", "main_o", "app"}

\* The round of the peeling in which node n of an acyclic graph comes off:
\* 0 without dependencies in the graph, else one more than the latest of
\* its dependencies.
RECURSIVE Level(_)
Level(n) ==
    LET deps == Range(registry[n]) \cap Range(NodeNames)
    IN  IF deps = {} THEN 0
        ELSE 1 + (CHOOSE l \in {Level(d) : d \in deps} :
                      \A k \in {Level(d) : d \in deps} : k <= l)

\* The place of node n in the insertion order of the graph.
Inserted(n) == CHOOSE i \in 1 .. Len(graph) : graph[i][1] = n

\* C23 (schedule order): a graph with a cycle gets the Cycle error and no
\* schedule; the schedule solve returns holds no task twice, holds every
\* task after the dependencies of it that are included, and is in the order
\* of the peeling rounds with the tasks of one round in the order they were
\* inserted into the graph, which leaves one sequence only.
C23_ScheduleOrder ==
    /\ (Failed /\ result[1] = "cycle") => \E n \in Range(NodeNames) : OnCycle(n)
    /\ ScheduleFresh =>
           /\ \A n \in Range(NodeNames) : ~OnCycle(n)
           /\ \A i, j \in 1 .. Len(schedule) :
                  /\ schedule[i] = schedule[j] => i = j
                  /\ i < j => schedule[j] \notin Range(registry[schedule[i]])
                  /\ i < j =>
                         \/ Level(schedule[i]) < Level(schedule[j])
                         \/ /\ Level(schedule[i]) = Level(schedule[j])
                            /\ Inserted(schedule[i]) < Inserted(schedule[j])

\* C23 witness: of the graph app, main_o, lib, util_o (in that order of
\* insertion) the schedule is lib, util_o, main_o, app.
C23_Witness ==
    /\ ScheduleFresh
    /\ NodeNames = <<"app", "main_o", "lib", "util_o">>
    /\ schedule = <<"lib", "util_o", "main_o", "app">>

\* The tasks sent to thread w and not yet acknowledged by a ready signal:
\* those waiting in its work channel and the one whose action it executes.
Outstanding(w) == Len(channels[w]) + (IF w \in Running THEN 1 ELSE 0)

\* C24 (dispatch only to idle workers): at every moment the work channel of
\* a worker and the worker itself hold at most one task that has been sent
\* and not yet acknowledged by a ready signal.
C24_OneOutstanding == \A w \in Workers : Outstanding(w) <= 1

\* The names whose send on the work channel of the picked thread failed.
FailedSends == {dispatched[i][1] : i \in {j \in 1 .. Len(dispatched) : ~dispatched[j][3]}}

\* C25 (send failure does not lose a task): a popped task whose send has
\* failed is not dropped from the run: it has been handed to a worker by
\* another send, or it still stands in the schedule.
C25_FailedSendKeepsTask == FailedSends \subseteq SentNames \cup Range(schedule)

----------------------------------------------------------------------------
(* Properties of the graph across run calls (RSpec)                         *)

\* C26 (failed resolution leaves the graph unchanged): when the run call has
\* returned an unknown-task error, the graph holds the nodes it held when
\* run was called, and no other.
C26_FailedResolutionLeavesGraph ==
    (Failed /\ result[1] = "no matching task or rule") => Len(graph) = nodes_before

\* C27 (runs are independent): the tasks scheduled by a run call are among
\* the tasks reachable from its roots through the declared dependencies,
\* whatever run calls were made on the Runner before.
C27_RunsIndependent ==
    ScheduleFresh => Range(schedule) \subseteq Declared(Range(roots), MaxNames)

\* The names the script can make a task for, and the most dependencies one
\* of those tasks has.
Names == DOMAIN tasks \cup UNION {rules[i].matches : i \in 1 .. Len(rules)}

Widest ==
    LET widths == {Len(TaskDependencies(n, ResolverLookup(n))) : n \in Names}
    IN  CHOOSE w \in widths : \A v \in widths : v <= w

RECURSIVE Sum(_)
Sum(s) == IF s = <<>> THEN 0 ELSE Head(s) + Sum(Tail(s))

\* The steps the resolve_task calls on the names of S take at most when the
\* graph lacks them: the call, a look at every dependency, the return.
RECURSIVE Inserts(_)
Inserts(S) ==
    IF S = {} THEN 0
    ELSE LET n == CHOOSE x \in S : TRUE
         IN  Len(TaskDependencies(n, ResolverLookup(n))) + 2 + Inserts(S \ {n})

\* A bound on the steps resolving has yet to take: for every resolve_task
\* call under way the dependencies it has yet to look at and its return,
\* for every name yet to be inserted its call, and for every root yet to be
\* resolved a call on a name that may be a node already.
Measure ==
    LET calls == [k \in 1 .. Len(rstack) |->
                     Len(registry[rstack[k][1]]) - rstack[k][2] + 1]
    IN  Sum(calls) + Inserts({n \in Names : ~contains(n)})
                   + (Len(roots) - rroot) * (Widest + 2)

\* C28 (resolver termination): resolving terminates, on declarations with
\* cycles and self-dependencies too: every step of resolve_task brings a
\* bound on the steps yet to come down, since a name is inserted before its
\* dependencies are looked at and a name is inserted (fetched from the
\* script) only when the graph lacks it.
C28_ResolverTerminates ==
    [][/\ (cpc = "resolve" /\ cpc' = "resolve") => (Measure' < Measure /\ Measure' >= 0)
       /\ graph' # graph =>
              /\ Len(graph') = Len(graph) + 1
              /\ SubSeq(graph', 1, Len(graph)) = graph
              /\ ~contains(graph'[Len(graph')][1])]_vars

\* C28 witness: the root that depends on itself has been resolved.
C28_Witness ==
    /\ RootsResolved
    /\ roots = <<"s">>
    /\ registry = [s |-> <<"s">>]

\* C29 (job budget zero): with jobs = 0 and a schedule that is not empty no
\* thread is spawned and nothing is handed out or invoked; the coordinator
\* enters its loop with the whole schedule, finds the ready channel empty
\* with every sender gone, and the run call ends in that failed receive,
\* never in Ok(()).
C29_JobBudgetZero ==
    (jobs = 0 /\ task_count > 0) =>
        /\ thread_count = 0
        /\ NothingStarted
        /\ Len(schedule) = task_count
        /\ cpc \in {"spawn", "loop", "panicked"}
        /\ cpc = "loop" => (ready = <<>> /\ \A w \in Workers : wpc[w] = "unspawned")

\* C29 witness: a run with jobs = 0 and two tasks scheduled has ended in the
\* failed receive.
C29_Witness ==
    /\ jobs = 0
    /\ task_count = 2
    /\ cpc = "panicked"

\* The names current_tasks holds.
CurrentNames == {current_tasks[w] : w \in DOMAIN current_tasks}

\* C30 (coordinator bookkeeping): at the start of every iteration of the
\* outer loop each thread id below thread_count is in exactly one of
\* free_threads and the keys of current_tasks; completed_tasks, the names in
\* current_tasks and the names left in the schedule are pairwise disjoint,
\* no name is current for two threads, and while no send has failed they
\* make up all_tasks together.
C30_Bookkeeping ==
    cpc = "loop" =>
        /\ free_threads \cup DOMAIN current_tasks = 0 .. (thread_count - 1)
        /\ free_threads \cap DOMAIN current_tasks = {}
        /\ completed_tasks \cap CurrentNames = {}
        /\ completed_tasks \cap Range(schedule) = {}
        /\ CurrentNames \cap Range(schedule) = {}
        /\ \A v, w \in DOMAIN current_tasks : current_tasks[v] = current_tasks[w] => v = w
        /\ FailedSends = {} =>
               completed_tasks \cup CurrentNames \cup Range(schedule) = all_tasks

\* C30 witness: an iteration starts with a task completed, one current, one
\* yet in the schedule, a thread free and no send failed.
C30_Witness ==
    /\ cpc = "loop"
    /\ completed_tasks # {}
    /\ CurrentNames # {}
    /\ schedule # <<>>
    /\ free_threads # {}
    /\ FailedSends = {}

====
